---- MODULE Spec2Model ----
(***************************************************************************)
(* Kurseduka-dl (src/main.py): the filename sanitizer, the embedded-data   *)
(* extractor, the course structure simplifier and the download loop.       *)
(*                                                                         *)
(* Text is a sequence of lexical atoms.  Every punctuation character is an *)
(* atom of its own ("[", "\"", "\\", ...); a run of ordinary characters    *)
(* that no regular expression or parser of the program looks into          *)
(* ("slug", "Mod 1") is one atom.  The sanitizer's inputs are sequences of *)
(* single characters.                                                      *)
(***************************************************************************)
EXTENDS Integers, Sequences, FiniteSets, TLC

VARIABLES
    pc,              \* position of the running script / function
    filename,        \* sanitize_filename: argument
    max_length,      \* sanitize_filename: argument
    sanitized,       \* sanitize_filename: return value
    html_content,    \* extract_course_data_specifically: the course page
    all_data,        \* extract_course_data_specifically: the candidates
    primary_data,    \* what extract_nextjs_json_data returned
    manual_ran,      \* whether extract_with_manual_parsing was called
    course_data,     \* the selected record (None: JNull), handed to the simplifier
    simplified_data, \* simplify_course_data: its outcome (a value or a raise)
    module_index,    \* download loop: the module being walked (0: none yet)
    lesson_index,    \* download loop: the lesson being walked (0: none yet)
    lesson_json,     \* download loop: the watch metadata of the lesson
    complementary_index, \* download loop: the attachment being walked
    processed,       \* download loop: the <<module, lesson>> pairs walked so far
    effects,         \* download loop: what was done for the lesson being walked
    diag,            \* download loop: the last diagnostic printed, or the
                     \* exception that ended the run
    page,            \* course listing: the page number to request next
    courses,         \* course listing: the entries collected so far
    requested,       \* course listing: the page numbers requested, in order
    served,          \* course listing: the cards of each page the server sent
    choice,          \* course selection: the number the user typed last
    selected         \* course selection: the entry chosen

sanVars == <<filename, max_length, sanitized>>
extVars == <<html_content, all_data, primary_data, manual_ran>>
simpVars == <<course_data, simplified_data>>
dlVars == <<module_index, lesson_index, lesson_json, complementary_index,
            processed, effects, diag>>

listVars == <<page, courses, requested, served, choice, selected>>

vars == <<pc, sanVars, extVars, simpVars, dlVars, listVars>>

Unset == <<"unset">>

\* the download loop has not started
DlIdle ==
    /\ module_index = 0
    /\ lesson_index = 0
    /\ lesson_json = Unset
    /\ complementary_index = 0
    /\ processed = <<>>
    /\ effects = {}
    /\ diag = ""

\* the course listing has not started
ListIdle ==
    /\ page = 0
    /\ courses = <<>>
    /\ requested = <<>>
    /\ served = <<>>
    /\ choice = 0
    /\ selected = Unset

(***************************************************************************)
(* Generic sequence helpers                                                *)
(***************************************************************************)
SeqsUpTo(S, n) == UNION {[1..k -> S] : k \in 0..n}

(***************************************************************************)
(* sanitize_filename (src/main.py 12-55)                                   *)
(***************************************************************************)
reserved_names ==
    { <<"C","O","N">>, <<"P","R","N">>, <<"A","U","X">>, <<"N","U","L">> }
    \cup { <<"C","O","M",d>> : d \in {"1","2","3","4","5","6","7","8","9"} }
    \cup { <<"L","P","T",d>> : d \in {"1","2","3","4","5","6","7","8","9"} }

invalid_chars == {"<", ">", ":", "\"", "/", "\\", "|", "?", "*"}

DefaultMaxLength == 100

Untitled == <<"u","n","t","i","t","l","e","d">>

LowerLetters == <<"a","b","c","d","e","f","g","h","i","j","k","l","m",
                  "n","o","p","q","r","s","t","u","v","w","x","y","z">>
UpperLetters == <<"A","B","C","D","E","F","G","H","I","J","K","L","M",
                  "N","O","P","Q","R","S","T","U","V","W","X","Y","Z">>

\* str.upper() on one character
UpperChar(c) ==
    IF \E i \in 1..26 : LowerLetters[i] = c
    THEN UpperLetters[CHOOSE i \in 1..26 : LowerLetters[i] = c]
    ELSE c

\* str.upper()
Upper(s) == [i \in 1..Len(s) |-> UpperChar(s[i])]

\* re.sub(r'[<>:"/\\|?*]', '_', filename)
ReplaceInvalid(s) == [i \in 1..Len(s) |-> IF s[i] \in invalid_chars THEN "_" ELSE s[i]]

\* str.lstrip(chars)
LStrip(s, chars) ==
    IF \A i \in 1..Len(s) : s[i] \in chars
    THEN <<>>
    ELSE SubSeq(s, CHOOSE i \in 1..Len(s) :
                       s[i] \notin chars /\ \A j \in 1..(i-1) : s[j] \in chars,
                Len(s))

\* str.rstrip(chars)
RStrip(s, chars) ==
    IF \A i \in 1..Len(s) : s[i] \in chars
    THEN <<>>
    ELSE SubSeq(s, 1, CHOOSE i \in 1..Len(s) :
                          s[i] \notin chars /\ \A j \in (i+1)..Len(s) : s[j] \in chars)

\* str.strip(chars)
Strip(s, chars) == RStrip(LStrip(s, chars), chars)

\* a faulty collapse that leaves runs of "_" as they are
CollapseNoop(s) == s

\* re.sub(r'_+', '_', filename): a "_" that follows a "_" is dropped
CollapseUnderscores(s) ==
    SelectSeq([i \in 1..Len(s) |->
                  IF s[i] = "_" /\ i > 1 /\ s[i-1] = "_" THEN "" ELSE s[i]],
              LAMBDA c : c # "")

\* if filename.upper() in reserved_names: filename = f"_{filename}"
PrefixReserved(s) == IF Upper(s) \in reserved_names THEN <<"_">> \o s ELSE s

\* if len(filename) > max_length: filename = filename[:max_length].rstrip('_')
Truncate(s, n) == IF Len(s) > n THEN RStrip(SubSeq(s, 1, n), {"_"}) ELSE s

\* if not filename: filename = "untitled"
OrUntitled(s) == IF s = <<>> THEN Untitled ELSE s

sanitize_filename(name, maxlen) ==
    OrUntitled(
      Truncate(
        PrefixReserved(
          CollapseUnderscores(
            Strip(ReplaceInvalid(name), {" ", "."}))),
        maxlen))

(***************************************************************************)
(* Python values as json.loads builds them.  k is the Python type, v the   *)
(* payload: a string is its sequence of atoms, a list its sequence of      *)
(* values, a dict its sequence of <<key, value>> pairs in insertion order. *)
(***************************************************************************)
JNull == [k |-> "null", v |-> <<>>]
JBool(b) == [k |-> "bool", v |-> <<b>>]
JNum(n) == [k |-> "num", v |-> <<n>>]
JStr(s) == [k |-> "str", v |-> s]
JList(xs) == [k |-> "list", v |-> xs]
JDict(ps) == [k |-> "dict", v |-> ps]

\* a one-atom string, the usual key or tag
W(a) == JStr(<<a>>)

\* bool(value)
Truthy(x) ==
    CASE x.k = "null" -> FALSE
      [] x.k = "bool" -> x.v[1]
      [] x.k = "num" -> x.v[1] # 0
      [] OTHER -> x.v # <<>>

\* key in d, for a dict d
HasKey(d, key) == \E i \in 1..Len(d.v) : d.v[i][1] = key

\* d[key], for a dict d holding key
Lookup(d, key) == d.v[CHOOSE i \in 1..Len(d.v) : d.v[i][1] = key][2]

\* d.get(key, default), for a dict d
Get(d, key, default) == IF HasKey(d, key) THEN Lookup(d, key) ELSE default

\* needle in s, for strings: needle occurs in s as a contiguous run
IsSubstring(needle, s) ==
    \E i \in 1..(Len(s) - Len(needle) + 1) : SubSeq(s, i, i + Len(needle) - 1) = needle

\* `key in x` raises TypeError when x is None, a bool or a number
InRaises(x) == x.k \in {"null", "bool", "num"}

\* `key in x` for a dict (its keys), a list (its elements) or a string
InTest(key, x) ==
    CASE x.k = "dict" -> HasKey(x, key)
      [] x.k = "list" -> \E i \in 1..Len(x.v) : x.v[i] = JStr(key)
      [] x.k = "str" -> IsSubstring(key, x.v)
      [] OTHER -> FALSE

\* `for item in x` raises TypeError when x is None, a bool or a number
IterRaises(x) == x.k \in {"null", "bool", "num"}

\* the items `for item in x` visits: a list's elements, a dict's keys, a
\* string's characters
IterItems(x) ==
    CASE x.k = "list" -> x.v
      [] x.k = "dict" -> [i \in 1..Len(x.v) |-> JStr(x.v[i][1])]
      [] x.k = "str" -> [i \in 1..Len(x.v) |-> JStr(<<x.v[i]>>)]
      [] OTHER -> <<>>

\* the outcome of a call: a returned value or a raised exception
Return(x) == [raised |-> FALSE, exc |-> "", value |-> x]
Raise(e) == [raised |-> TRUE, exc |-> e, value |-> <<>>]

(***************************************************************************)
(* simplify_course_data (src/main.py 271-318)                              *)
(***************************************************************************)
\* a faulty simplifier whose starting structure carries the "Unknown" defaults
SimplifiedUnknown ==
    [title |-> W("Unknown"), slug |-> W("Unknown"), modules |-> <<>>]

\* the structure the function starts from and returns when content.content
\* is not there
SimplifiedInitial == [title |-> JStr(<<>>), slug |-> JStr(<<>>), modules |-> <<>>]

\* the lesson built from lesson_item['data']
LessonOf(lesson_data) ==
    [id |-> Get(lesson_data, <<"id">>, JNull),
     uuid |-> Get(lesson_data, <<"uuid">>, JNull),
     title |-> Get(lesson_data, <<"title">>, JStr(<<>>)),
     type |-> Get(lesson_data, <<"type">>, JNull),
     status |-> Get(lesson_data, <<"status">>, W("ACTIVE"))]

\* a faulty filter that takes every entry carrying data, whatever its tag
IsTaggedOrNot(item, tag) == HasKey(item, <<"data">>)

\* item.get('type') == tag and 'data' in item
IsTagged(item, tag) ==
    Get(item, <<"type">>, JNull) = W(tag) /\ HasKey(item, <<"data">>)

\* for lesson_item in module_data['structure'], from item i on, lessons
\* being module['lessons'] so far
RECURSIVE LessonsLoop(_, _, _)
LessonsLoop(items, i, lessons) ==
    IF i > Len(items) THEN Return(lessons)
    ELSE IF items[i].k # "dict" THEN Raise("AttributeError")
    ELSE IF IsTagged(items[i], "LESSON")
    THEN IF Lookup(items[i], <<"data">>).k # "dict" THEN Raise("AttributeError")
         ELSE LessonsLoop(items, i + 1,
                          Append(lessons, LessonOf(Lookup(items[i], <<"data">>))))
    ELSE LessonsLoop(items, i + 1, lessons)

\* the module built from item['data'], or the exception building it raises
ModuleOf(module_data) ==
    IF module_data.k # "dict" THEN Raise("AttributeError")
    ELSE LET lessons ==
                 IF ~HasKey(module_data, <<"structure">>) THEN Return(<<>>)
                 ELSE IF IterRaises(Lookup(module_data, <<"structure">>))
                 THEN Raise("TypeError")
                 ELSE LessonsLoop(IterItems(Lookup(module_data, <<"structure">>)),
                                  1, <<>>)
         IN IF lessons.raised THEN lessons
            ELSE Return([id |-> Get(module_data, <<"id">>, JNull),
                         uuid |-> Get(module_data, <<"uuid">>, JNull),
                         title |-> Get(module_data, <<"title">>, JStr(<<>>)),
                         lessons |-> lessons.value])

\* for item in content['structure'], from item i on, modules being
\* simplified['modules'] so far
RECURSIVE ModulesLoop(_, _, _)
ModulesLoop(items, i, modules) ==
    IF i > Len(items) THEN Return(modules)
    ELSE IF items[i].k # "dict" THEN Raise("AttributeError")
    ELSE IF IsTagged(items[i], "MODULE")
    THEN LET module == ModuleOf(Lookup(items[i], <<"data">>))
         IN IF module.raised THEN module
            ELSE ModulesLoop(items, i + 1, Append(modules, module.value))
    ELSE ModulesLoop(items, i + 1, modules)

\* course_data is a dict (the selector returns nothing else)
simplify_course_data(cd) ==
    IF ~HasKey(cd, <<"content">>) THEN Return(SimplifiedInitial)
    ELSE LET outer == Lookup(cd, <<"content">>)
         IN IF InRaises(outer) THEN Raise("TypeError")
            ELSE IF ~InTest(<<"content">>, outer) THEN Return(SimplifiedInitial)
            ELSE IF outer.k # "dict" THEN Raise("TypeError")
            ELSE LET content == Lookup(outer, <<"content">>)
                 IN IF content.k # "dict" THEN Raise("AttributeError")
                    ELSE LET modules ==
                                 IF ~HasKey(content, <<"structure">>) THEN Return(<<>>)
                                 ELSE IF IterRaises(Lookup(content, <<"structure">>))
                                 THEN Raise("TypeError")
                                 ELSE ModulesLoop(
                                          IterItems(Lookup(content, <<"structure">>)),
                                          1, <<>>)
                         IN IF modules.raised THEN modules
                            ELSE Return([title |-> Get(content, <<"title">>, W("Unknown")),
                                         slug |-> Get(content, <<"slug">>, W("Unknown")),
                                         modules |-> modules.value])

(***************************************************************************)
(* json.loads on a sequence of atoms.  A parse step returns ok (FALSE for  *)
(* a JSONDecodeError), the value and the index after it.                   *)
(***************************************************************************)
ParseFail == [ok |-> FALSE, val |-> JNull, next |-> 0]
Parsed(x, n) == [ok |-> TRUE, val |-> x, next |-> n]

\* the least member of a set of indices, 0 when it is empty
First(S) == IF S = {} THEN 0 ELSE CHOOSE i \in S : \A j \in S : i <= j

\* the greatest member of a set of indices, 0 when it is empty
Last(S) == IF S = {} THEN 0 ELSE CHOOSE i \in S : \A j \in S : j <= i

\* s holds the literal lit at index i
IsLit(s, i, lit) ==
    i >= 1 /\ i + Len(lit) - 1 <= Len(s) /\ SubSeq(s, i, i + Len(lit) - 1) = lit

\* json whitespace: the index of the first atom at or after i that is not
\* a space (Len(s) + 1 when there is none)
SkipWs(s, i) == First({j \in i..(Len(s) + 1) : j > Len(s) \/ s[j] # " "})

\* the integer literals of the documents
NumberAtoms == <<"0", "1", "2", "3", "4", "5", "6", "7", "8", "9", "10">>
IsNumber(a) == \E n \in 1..Len(NumberAtoms) : NumberAtoms[n] = a
NumberOf(a) == (CHOOSE n \in 1..Len(NumberAtoms) : NumberAtoms[n] = a) - 1

\* what may follow a backslash inside a string, and the character it gives;
\* "u005d" stands for the four hex digits after \u that encode "]"
IsEscape(a) == a \in {"\"", "\\", "/", "u005d"}
EscapeOf(a) == IF a = "u005d" THEN "]" ELSE a

\* the number of backslashes that stand directly before index p
BackslashRun(s, p) == p - 1 - Last({j \in 0..(p - 1) : j = 0 \/ s[j] # "\\"})

\* index p holds a backslash that starts an escape (an even number of
\* backslashes stands before it)
StartsEscape(s, p) == s[p] = "\\" /\ BackslashRun(s, p) % 2 = 0

\* index p holds the character an escape ends with
EndsEscape(s, p) == BackslashRun(s, p) % 2 = 1

\* py_scanstring from index i (after the opening quote): the string ends at
\* the first quote no backslash escapes; every escape in it must be a known
\* one; the value is the text with its escapes replaced
ScanString(s, i) ==
    LET q == First({e \in i..Len(s) : s[e] = "\"" /\ ~EndsEscape(s, e)})
    IN IF q = 0 \/ \E p \in i..(q - 1) : EndsEscape(s, p) /\ ~IsEscape(s[p])
       THEN ParseFail
       ELSE Parsed(
              JStr(SelectSeq(
                     [n \in 1..(q - i) |->
                         IF StartsEscape(s, i + n - 1) THEN ""
                         ELSE IF EndsEscape(s, i + n - 1) THEN EscapeOf(s[i + n - 1])
                         ELSE s[i + n - 1]],
                     LAMBDA a : a # "")),
              q + 1)

\* d[key] = val on the pairs of a dict: a repeated key keeps its place and
\* takes the later value
DictPut(ps, key, val) ==
    IF \E n \in 1..Len(ps) : ps[n][1] = key
    THEN [n \in 1..Len(ps) |-> IF ps[n][1] = key THEN <<key, val>> ELSE ps[n]]
    ELSE Append(ps, <<key, val>>)

RECURSIVE ParseValue(_, _), ParseElements(_, _, _), ParseMembers(_, _, _)

\* scan_once at index i
ParseValue(s, i) ==
    IF i > Len(s) THEN ParseFail
    ELSE IF s[i] = "\"" THEN ScanString(s, i + 1)
    ELSE IF s[i] = "[" 
    THEN IF SkipWs(s, i + 1) <= Len(s) /\ s[SkipWs(s, i + 1)] = "]"
         THEN Parsed(JList(<<>>), SkipWs(s, i + 1) + 1)
         ELSE ParseElements(s, SkipWs(s, i + 1), <<>>)
    ELSE IF s[i] = "{"
    THEN IF SkipWs(s, i + 1) <= Len(s) /\ s[SkipWs(s, i + 1)] = "}"
         THEN Parsed(JDict(<<>>), SkipWs(s, i + 1) + 1)
         ELSE ParseMembers(s, SkipWs(s, i + 1), <<>>)
    ELSE IF s[i] = "null" THEN Parsed(JNull, i + 1)
    ELSE IF s[i] = "true" THEN Parsed(JBool(TRUE), i + 1)
    ELSE IF s[i] = "false" THEN Parsed(JBool(FALSE), i + 1)
    ELSE IF IsNumber(s[i]) THEN Parsed(JNum(NumberOf(s[i])), i + 1)
    ELSE ParseFail

\* JSONArray: the elements from index i on, acc the elements read so far
ParseElements(s, i, acc) ==
    LET x == ParseValue(s, i)
        j == SkipWs(s, x.next)
    IN IF ~x.ok \/ j > Len(s) THEN ParseFail
       ELSE IF s[j] = "]" THEN Parsed(JList(Append(acc, x.val)), j + 1)
       ELSE IF s[j] = "," THEN ParseElements(s, SkipWs(s, j + 1), Append(acc, x.val))
       ELSE ParseFail

\* JSONObject: the members from index i on, acc the pairs read so far
ParseMembers(s, i, acc) ==
    IF i > Len(s) \/ s[i] # "\"" THEN ParseFail
    ELSE LET key == ScanString(s, i + 1)
             c == SkipWs(s, key.next)
         IN IF ~key.ok \/ c > Len(s) \/ s[c] # ":" THEN ParseFail
            ELSE LET x == ParseValue(s, SkipWs(s, c + 1))
                     j == SkipWs(s, x.next)
                 IN IF ~x.ok \/ j > Len(s) THEN ParseFail
                    ELSE IF s[j] = "}"
                    THEN Parsed(JDict(DictPut(acc, key.val.v, x.val)), j + 1)
                    ELSE IF s[j] = ","
                    THEN ParseMembers(s, SkipWs(s, j + 1),
                                      DictPut(acc, key.val.v, x.val))
                    ELSE ParseFail

\* json.loads(s): one value, whitespace around it, nothing after it
json_loads(s) ==
    LET x == ParseValue(s, SkipWs(s, 1))
    IN IF x.ok /\ SkipWs(s, x.next) = Len(s) + 1 THEN x ELSE ParseFail

\* s.startswith('b:')
StartsWithB(s) == IsLit(s, 1, <<"b", ":">>)

(***************************************************************************)
(* The decode strategies (src/main.py 169-198).  None is JNull.            *)
(***************************************************************************)
\* the payload of a parsed "b:" array: parsed[3] of a list of four or more
PayloadOf(x) ==
    IF x.ok /\ x.val.k = "list" /\ Len(x.val.v) >= 4 THEN x.val.v[4] ELSE JNull

process_b_format(s) ==
    IF StartsWithB(s) THEN PayloadOf(json_loads(SubSeq(s, 3, Len(s)))) ELSE JNull

process_direct_json(s) == IF json_loads(s).ok THEN json_loads(s).val ELSE JNull

\* a faulty array-wrap that takes element 0 of the array
process_array_format_first(s) ==
    LET array_data == json_loads(<<"[">> \o s \o <<"]">>)
    IN IF array_data.ok /\ Len(array_data.val.v) >= 2
          /\ array_data.val.v[1].k = "str" /\ StartsWithB(array_data.val.v[1].v)
       THEN process_b_format(array_data.val.v[1].v)
       ELSE JNull

process_array_format(s) ==
    LET array_data == json_loads(<<"[">> \o s \o <<"]">>)
    IN IF array_data.ok /\ Len(array_data.val.v) >= 2
          /\ array_data.val.v[2].k = "str" /\ StartsWithB(array_data.val.v[2].v)
       THEN process_b_format(array_data.val.v[2].v)
       ELSE JNull

\* approaches[n](match_str)
Approach(n, s) ==
    CASE n = 1 -> process_b_format(s)
      [] n = 2 -> process_direct_json(s)
      [] n = 3 -> process_array_format(s)

\* if result: extend with a list, append anything else
AddResult(results, result) ==
    IF ~Truthy(result) THEN results
    ELSE IF result.k = "list" THEN results \o result.v
    ELSE Append(results, result)

\* a faulty approach loop that gives up at the first approach that fails
RECURSIVE ApproachesLoopStop(_, _, _)
ApproachesLoopStop(s, n, results) ==
    IF n > 3 \/ ~Truthy(Approach(n, s)) THEN results
    ELSE ApproachesLoopStop(s, n + 1, AddResult(results, Approach(n, s)))

\* for approach in approaches, from approach n on
RECURSIVE ApproachesLoop(_, _, _)
ApproachesLoop(s, n, results) ==
    IF n > 3 THEN results
    ELSE ApproachesLoop(s, n + 1, AddResult(results, Approach(n, s)))

process_match_string(match_str) == ApproachesLoop(match_str, 1, <<>>)

(***************************************************************************)
(* The regular expressions (src/main.py 114-121, 206, 210, 217): a match   *)
(* attempt at index i gives ok, the captured group and the index after the *)
(* match.                                                                  *)
(***************************************************************************)
NoMatch == [ok |-> FALSE, cap |-> <<>>, end |-> 0]
Match(c, e) == [ok |-> TRUE, cap |-> c, end |-> e]

\* self\.__next_f\.push\(\[
PushOpen == <<"self.__next_f.push", "(", "[">>

\* pattern 1: self\.__next_f\.push\(\[1,"([^"]+)"\]\)
Pattern1At(s, i) ==
    IF ~IsLit(s, i, PushOpen \o <<"1", ",", "\"">>) THEN NoMatch
    ELSE LET q == First({e \in (i + 6)..Len(s) : s[e] = "\""})
         IN IF q > i + 6 /\ IsLit(s, q, <<"\"", "]", ")">>)
            THEN Match(SubSeq(s, i + 6, q - 1), q + 3)
            ELSE NoMatch

\* pattern 2: self\.__next_f\.push\(\[1,"(b:\[.*?\])"\]\)
Pattern2At(s, i) ==
    IF ~IsLit(s, i, PushOpen \o <<"1", ",", "\"", "b", ":", "[">>) THEN NoMatch
    ELSE LET e == First({e \in (i + 9)..Len(s) : IsLit(s, e, <<"]", "\"", "]", ")">>)})
         IN IF e # 0 THEN Match(SubSeq(s, i + 6, e), e + 4) ELSE NoMatch

\* pattern 3: self\.__next_f\.push\(\[(.*?)\]\)
Pattern3At(s, i) ==
    IF ~IsLit(s, i, PushOpen) THEN NoMatch
    ELSE LET e == First({e \in (i + 3)..Len(s) : IsLit(s, e, <<"]", ")">>)})
         IN IF e # 0 THEN Match(SubSeq(s, i + 3, e - 1), e + 2) ELSE NoMatch

\* script_pattern: <script[^>]*>(.*?self\.__next_f\.push.*?)</script>
\* ("<script>" is an opening tag without attributes)
ScriptAt(s, i) ==
    IF i > Len(s) \/ s[i] # "<script>" THEN NoMatch
    ELSE LET p == First({p \in (i + 1)..Len(s) : s[p] = "self.__next_f.push"})
             c == IF p = 0 THEN 0
                  ELSE First({c \in (p + 1)..Len(s) : s[c] = "</script>"})
         IN IF c # 0 THEN Match(SubSeq(s, i + 1, c - 1), c + 1) ELSE NoMatch

\* push_pattern: self\.__next_f\.push\(\[([^\]]+)\]\)
PushArgsAt(s, i) ==
    IF ~IsLit(s, i, PushOpen) THEN NoMatch
    ELSE LET e == First({e \in (i + 3)..Len(s) : s[e] = "]"})
         IN IF e > i + 3 /\ IsLit(s, e, <<"]", ")">>)
            THEN Match(SubSeq(s, i + 3, e - 1), e + 2)
            ELSE NoMatch

\* parts_pattern, matched at index i: (\d+),"(b:\[.*\])" ; the group is
\* group(2)
PartsAt(s, i) ==
    IF ~(i <= Len(s) /\ IsNumber(s[i]) /\ IsLit(s, i + 1, <<",", "\"", "b", ":", "[">>))
    THEN NoMatch
    ELSE LET e == Last({e \in (i + 6)..Len(s) : IsLit(s, e, <<"]", "\"">>)})
         IN IF e # 0 THEN Match(SubSeq(s, i + 3, e), e + 2) ELSE NoMatch

PatternAt(k, s, i) ==
    CASE k = 1 -> Pattern1At(s, i)
      [] k = 2 -> Pattern2At(s, i)
      [] k = 3 -> Pattern3At(s, i)
      [] k = 4 -> ScriptAt(s, i)
      [] k = 5 -> PushArgsAt(s, i)
      [] k = 6 -> PartsAt(s, i)

\* re.search(pattern k, s): the leftmost match
Search(k, s, from) ==
    LET i == First({i \in from..Len(s) : PatternAt(k, s, i).ok})
    IN IF i = 0 THEN NoMatch ELSE PatternAt(k, s, i)

\* re.findall(pattern k, s): the groups of the non-overlapping matches, left
\* to right, scanning from index `from`
RECURSIVE FindAll(_, _, _)
FindAll(k, s, from) ==
    LET m == Search(k, s, from)
    IN IF ~m.ok THEN <<>> ELSE <<m.cap>> \o FindAll(k, s, m.end)

(***************************************************************************)
(* extract_nextjs_json_data (src/main.py 101-136)                          *)
(***************************************************************************)
\* for match in matches, from match i on: if json_data: extend
RECURSIVE MatchesLoop(_, _, _)
MatchesLoop(matches, i, extracted) ==
    IF i > Len(matches) THEN extracted
    ELSE MatchesLoop(matches, i + 1, extracted \o process_match_string(matches[i]))

\* for pattern in patterns, from pattern k on
RECURSIVE PatternsLoop(_, _, _)
PatternsLoop(html, k, extracted) ==
    IF k > 3 THEN extracted
    ELSE PatternsLoop(html, k + 1, MatchesLoop(FindAll(k, html, 1), 1, extracted))

extract_nextjs_json_data(html) == PatternsLoop(html, 1, <<>>)

(***************************************************************************)
(* extract_with_manual_parsing (src/main.py 200-246)                       *)
(***************************************************************************)
\* what one push_match adds to extracted_data: parsed[3] or nothing
ManualDecode(push_match) ==
    LET parts == Search(6, push_match, 1)
    IN IF parts.ok
       THEN LET parsed == json_loads(SubSeq(parts.cap, 3, Len(parts.cap)))
            IN IF parsed.ok /\ parsed.val.k = "list" /\ Len(parsed.val.v) >= 4
               THEN <<parsed.val.v[4]>>
               ELSE <<>>
       ELSE LET parsed_array == json_loads(<<"[">> \o push_match \o <<"]">>)
            IN IF parsed_array.ok /\ Len(parsed_array.val.v) >= 2
                  /\ parsed_array.val.v[2].k = "str"
                  /\ StartsWithB(parsed_array.val.v[2].v)
               THEN LET parsed == json_loads(SubSeq(parsed_array.val.v[2].v, 3,
                                                    Len(parsed_array.val.v[2].v)))
                    IN IF parsed.ok /\ parsed.val.k = "list" /\ Len(parsed.val.v) >= 4
                       THEN <<parsed.val.v[4]>>
                       ELSE <<>>
               ELSE <<>>

\* for push_match in push_matches, from match i on
RECURSIVE PushMatchesLoop(_, _, _)
PushMatchesLoop(push_matches, i, extracted) ==
    IF i > Len(push_matches) THEN extracted
    ELSE PushMatchesLoop(push_matches, i + 1,
                         extracted \o ManualDecode(push_matches[i]))

\* for script_content in script_matches, from script i on
RECURSIVE ScriptsLoop(_, _, _)
ScriptsLoop(script_matches, i, extracted) ==
    IF i > Len(script_matches) THEN extracted
    ELSE ScriptsLoop(script_matches, i + 1,
                     PushMatchesLoop(FindAll(5, script_matches[i], 1), 1, extracted))

extract_with_manual_parsing(html) == ScriptsLoop(FindAll(4, html, 1), 1, <<>>)

(***************************************************************************)
(* extract_course_data_specifically: the selection (src/main.py 257-269)   *)
(***************************************************************************)
\* a faulty rule that takes any mapping holding content
QualifiesLoose(data) == data.k = "dict" /\ HasKey(data, <<"content">>)

\* the two conditions under which `return data` is reached
Qualifies(data) ==
    /\ data.k = "dict"
    /\ \/ HasKey(data, <<"slug">>) /\ HasKey(data, <<"content">>)
       \/ /\ HasKey(data, <<"content">>)
          /\ Lookup(data, <<"content">>).k = "dict"
          /\ HasKey(Lookup(data, <<"content">>), <<"content">>)
          /\ Lookup(Lookup(data, <<"content">>), <<"content">>).k = "dict"
          /\ \/ HasKey(Lookup(Lookup(data, <<"content">>), <<"content">>), <<"slug">>)
             \/ HasKey(Lookup(Lookup(data, <<"content">>), <<"content">>), <<"title">>)

\* for data in all_data, from candidate i on; None is JNull
RECURSIVE SelectLoop(_, _)
SelectLoop(candidates, i) ==
    IF i > Len(candidates) THEN JNull
    ELSE IF Qualifies(candidates[i]) THEN candidates[i]
    ELSE SelectLoop(candidates, i + 1)

(***************************************************************************)
(* Sanitizer specification: the inputs are drawn in Init, one call is made *)
(***************************************************************************)
MaxNameLen == 4
MaxMaxLength == 5

SanAlphabet == {"C", "O", "N", "n", "/", "_", " ", "."}

ReferenceNames ==
    { <<"C","O","N">>,
      <<"a","/","/","/","b">>,
      <<" "," ",".","n","a","m","e","."," ">>,
      <<>> }

SanInit ==
    /\ DlIdle
    /\ ListIdle
    /\ pc = "sanitize"
    /\ filename \in SeqsUpTo(SanAlphabet, MaxNameLen) \cup ReferenceNames
    /\ max_length \in (0..MaxMaxLength) \cup {DefaultMaxLength}
    /\ sanitized = Unset
    /\ html_content = Unset
    /\ all_data = Unset
    /\ primary_data = Unset
    /\ manual_ran = FALSE
    /\ course_data = Unset
    /\ simplified_data = Unset

SanitizeCall ==
    /\ pc = "sanitize"
    /\ sanitized' = sanitize_filename(filename, max_length)
    /\ pc' = "sanitized"
    /\ UNCHANGED <<filename, max_length, extVars, simpVars, dlVars, listVars>>

SanNext == SanitizeCall

SpecSanitize == SanInit /\ [][SanNext]_vars

\* C8: for every name and every max_length the sanitizer's result is at most
\* max_length long and holds none of the nine invalid characters.
C8_OutputBound ==
    pc = "sanitized" =>
        /\ Len(sanitized) <= max_length
        /\ \A i \in 1..Len(sanitized) : sanitized[i] \notin invalid_chars

\* C9: with the default max_length, "CON" gives "_CON", "a///b" gives "a_b",
\* "  .name. " gives "name" and "" gives "untitled".
C9_ReferenceValues ==
    (pc = "sanitized" /\ max_length = DefaultMaxLength) =>
        /\ filename = <<"C","O","N">> => sanitized = <<"_","C","O","N">>
        /\ filename = <<"a","/","/","/","b">> => sanitized = <<"a","_","b">>
        /\ filename = <<" "," ",".","n","a","m","e","."," ">>
               => sanitized = <<"n","a","m","e">>
        /\ filename = <<>> => sanitized = <<"u","n","t","i","t","l","e","d">>

C9_Witness ==
    /\ pc = "sanitized"
    /\ max_length = DefaultMaxLength
    /\ filename = <<"a","/","/","/","b">>
    /\ sanitized = <<"a","_","b">>

(***************************************************************************)
(* Simplifier specification: the record is drawn in Init, one call is made *)
(***************************************************************************)
MaxEntries == 2
MaxLessons == 2

Entry(tag, data) == JDict(<< <<<<"type">>, W(tag)>>, <<<<"data">>, data>> >>)
EntryNoData(tag) == JDict(<< <<<<"type">>, W(tag)>> >>)

LessonDataA ==
    JDict(<< <<<<"id">>, JNum(10)>>, <<<<"uuid">>, W("u10")>>,
             <<<<"title">>, W("Lesson A")>>, <<<<"type">>, JNum(4)>> >>)
LessonDataB == JDict(<< <<<<"title">>, W("Lesson B")>> >>)

LessonEntries ==
    { Entry("LESSON", LessonDataA), Entry("LESSON", LessonDataB),
      EntryNoData("LESSON"), Entry("UNKNOWN", LessonDataA) }

ModuleData(structure) ==
    JDict(<< <<<<"id">>, JNum(1)>>, <<<<"uuid">>, W("u1")>>,
             <<<<"title">>, W("Mod 1")>>, <<<<"structure">>, structure>> >>)
ModuleDataBare == JDict(<< <<<<"title">>, W("Mod 2")>> >>)

\* the top-level entries of one record; its full modules share the lesson
\* entries ls
TopEntries(ls) ==
    { Entry("MODULE", ModuleData(JList(ls))), Entry("MODULE", ModuleDataBare),
      EntryNoData("MODULE"), Entry("LESSON", LessonDataA),
      Entry("UNKNOWN", ModuleDataBare) }

\* {"content": {"content": inner}}
Wrapped(inner) ==
    JDict(<< <<<<"content">>, JDict(<< <<<<"content">>, inner>> >>)>> >>)

CourseContent(structure) ==
    JDict(<< <<<<"title">>, W("Course X")>>, <<<<"slug">>, W("x")>>,
             <<<<"structure">>, structure>> >>)

StructuredRecords ==
    UNION { { Wrapped(CourseContent(JList(es))) :
                  es \in SeqsUpTo(TopEntries(ls), MaxEntries) } :
            ls \in SeqsUpTo(LessonEntries, MaxLessons) }

\* records in which content.content is not there
ShallowRecords ==
    { JDict(<<>>),
      JDict(<< <<<<"slug">>, W("x")>> >>),
      JDict(<< <<<<"content">>, JDict(<<>>)>> >>),
      JDict(<< <<<<"slug">>, W("x")>>, <<<<"content">>, JDict(<< <<<<"title">>, W("t")>> >>)>> >>),
      JDict(<< <<<<"slug">>, W("x")>>, <<<<"content">>, W("abc")>> >>),
      JDict(<< <<<<"slug">>, W("x")>>, <<<<"content">>, JList(<<>>)>> >>),
      JDict(<< <<<<"slug">>, W("x")>>, <<<<"content">>, JNull>> >>),
      JDict(<< <<<<"slug">>, W("x")>>, <<<<"content">>, JNum(5)>> >>) }

\* records with content.content, of every other shape the code meets
OddRecords ==
    { Wrapped(JDict(<<>>)),
      Wrapped(JDict(<< <<<<"title">>, W("Course X")>> >>)),
      Wrapped(JNull), Wrapped(W("s")), Wrapped(JList(<<>>)),
      JDict(<< <<<<"slug">>, W("x")>>, <<<<"content">>, JStr(<<"my ", "content">>)>> >>),
      JDict(<< <<<<"slug">>, W("x")>>, <<<<"content">>, JList(<<W("content")>>)>> >>),
      Wrapped(CourseContent(JNum(5))),
      Wrapped(CourseContent(W("ab"))),
      Wrapped(CourseContent(JStr(<<>>))),
      Wrapped(CourseContent(JDict(<< <<<<"a">>, JNum(1)>> >>))),
      Wrapped(CourseContent(JList(<<W("x")>>))),
      Wrapped(CourseContent(JList(<<Entry("MODULE", JNum(3))>>))),
      Wrapped(CourseContent(JList(<<Entry("MODULE", ModuleData(JNum(5)))>>))),
      Wrapped(CourseContent(JList(<<Entry("MODULE", ModuleData(JList(<<W("x")>>)))>>))),
      Wrapped(CourseContent(JList(<<Entry("MODULE",
                  ModuleData(JList(<<Entry("LESSON", JNum(3))>>)))>>))) }

SimpInit ==
    /\ DlIdle
    /\ ListIdle
    /\ pc = "simplify"
    /\ course_data \in StructuredRecords \cup ShallowRecords \cup OddRecords
    /\ simplified_data = Unset
    /\ filename = Unset
    /\ max_length = 0
    /\ sanitized = Unset
    /\ html_content = Unset
    /\ all_data = Unset
    /\ primary_data = Unset
    /\ manual_ran = FALSE

SimplifyCall ==
    /\ pc = "simplify"
    /\ simplified_data' = simplify_course_data(course_data)
    /\ pc' = "simplified"
    /\ UNCHANGED <<course_data, sanVars, extVars, dlVars, listVars>>

SimpNext == SimplifyCall

SpecSimplify == SimpInit /\ [][SimpNext]_vars

(***************************************************************************)
(* Extractor specification: the course page is drawn in Init, then         *)
(* extract_course_data_specifically runs (primary pass, fallback, the      *)
(* selection) and the script simplifies what was found (src/main.py        *)
(* 504-509).                                                               *)
(***************************************************************************)
MaxCalls == 2

\* the end-to-end fixture: one push call, inner quotes backslash-escaped
Fixture ==
   <<
      "self.__next_f.push", "(", "[", "1", ",", "\"", "b", ":", "[", "0",
      ",", "0", ",", "0", ",", "{", "\\", "\"", "slug", "\\", "\"", ":",
      "\\", "\"", "x", "\\", "\"", ",", "\\", "\"", "content", "\\", "\"",
      ":", "{", "\\", "\"", "content", "\\", "\"", ":", "{", "\\", "\"",
      "title", "\\", "\"", ":", "\\", "\"", "Course X", "\\", "\"", ",",
      "\\", "\"", "slug", "\\", "\"", ":", "\\", "\"", "x", "\\", "\"",
      ",", "\\", "\"", "structure", "\\", "\"", ":", "[", "{", "\\", "\"",
      "type", "\\", "\"", ":", "\\", "\"", "MODULE", "\\", "\"", ",", "\\",
      "\"", "data", "\\", "\"", ":", "{", "\\", "\"", "id", "\\", "\"",
      ":", "1", ",", "\\", "\"", "uuid", "\\", "\"", ":", "\\", "\"", "u1",
      "\\", "\"", ",", "\\", "\"", "title", "\\", "\"", ":", "\\", "\"",
      "Mod 1", "\\", "\"", ",", "\\", "\"", "structure", "\\", "\"", ":",
      "[", "{", "\\", "\"", "type", "\\", "\"", ":", "\\", "\"", "LESSON",
      "\\", "\"", ",", "\\", "\"", "data", "\\", "\"", ":", "{", "\\",
      "\"", "id", "\\", "\"", ":", "10", ",", "\\", "\"", "uuid", "\\",
      "\"", ":", "\\", "\"", "u10", "\\", "\"", ",", "\\", "\"", "title",
      "\\", "\"", ":", "\\", "\"", "Lesson A", "\\", "\"", ",", "\\", "\"",
      "type", "\\", "\"", ":", "4", "}", "}", "]", "}", "}", "]", "}", "}",
      "}", "]", "\"", "]", ")"
   >>

\* json.dumps(value, separators=(',', ':')) as atoms
RECURSIVE Dump(_), DumpItems(_, _), DumpPairs(_, _)
Dump(x) ==
    CASE x.k = "null" -> <<"null">>
      [] x.k = "bool" -> IF x.v[1] THEN <<"true">> ELSE <<"false">>
      [] x.k = "num" -> <<NumberAtoms[x.v[1] + 1]>>
      [] x.k = "str" -> <<"\"">> \o x.v \o <<"\"">>
      [] x.k = "list" -> <<"[">> \o DumpItems(x.v, 1) \o <<"]">>
      [] x.k = "dict" -> <<"{">> \o DumpPairs(x.v, 1) \o <<"}">>
DumpItems(xs, i) ==
    IF i > Len(xs) THEN <<>>
    ELSE Dump(xs[i]) \o (IF i < Len(xs) THEN <<",">> ELSE <<>>) \o DumpItems(xs, i + 1)
DumpPairs(ps, i) ==
    IF i > Len(ps) THEN <<>>
    ELSE <<"\"">> \o ps[i][1] \o <<"\"", ":">> \o Dump(ps[i][2])
         \o (IF i < Len(ps) THEN <<",">> ELSE <<>>) \o DumpPairs(ps, i + 1)

\* text inside a JavaScript string literal: each quote gets a backslash
RECURSIVE Escaped(_)
Escaped(text) ==
    IF text = <<>> THEN <<>>
    ELSE (IF Head(text) = "\"" THEN <<"\\", "\"">> ELSE <<Head(text)>>)
         \o Escaped(Tail(text))

\* self.__next_f.push([args])
Call(args) == PushOpen \o args \o <<"]", ")">>

\* self.__next_f.push([1,"b:[0,0,0,<payload>]"]), closing written as
\* `closing` ("]" itself or its ] escape)
BCall(payload, closing) ==
    Call(<<"1", ",", "\"", "b", ":", "[", "0", ",", "0", ",", "0", ",">>
         \o Escaped(Dump(payload)) \o closing \o <<"\"">>)

RecA == JDict(<< <<<<"slug">>, W("x")>>, <<<<"content">>, JNum(5)>> >>)
RecB == Wrapped(JDict(<< <<<<"title">>, W("Course X")>> >>))
RecN == JDict(<< <<<<"slug">>, W("x")>> >>)
RecC == Wrapped(JDict(<< <<<<"other">>, JNum(1)>> >>))
ListSC == JList(<<W("slug"), W("content")>>)

\* the pieces a page is made of: push calls in the framings the patterns
\* tell apart, and an unclosed call that takes the next one with it
Fragments ==
    { Call(Dump(RecA)), Call(Dump(RecB)), Call(Dump(RecN)), Call(Dump(RecC)),
      Call(Dump(ListSC)),
      Call(<<"0">>),
      BCall(RecA, <<"]">>), BCall(RecB, <<"]">>), BCall(JNum(5), <<"]">>),
      BCall(RecA, <<"\\", "u005d">>),
      PushOpen \o <<"0", "]", " ", "x", " ">> }

RECURSIVE Concat(_)
Concat(ss) == IF ss = <<>> THEN <<>> ELSE Head(ss) \o Concat(Tail(ss))

Pages ==
    { Concat(fs) : fs \in SeqsUpTo(Fragments, MaxCalls) }
    \cup { <<"<script>">> \o Concat(fs) \o <<"</script>">> :
               fs \in SeqsUpTo(Fragments, MaxCalls) }
    \cup { Fixture }

ExtInit ==
    /\ DlIdle
    /\ ListIdle
    /\ pc = "extract"
    /\ html_content \in Pages
    /\ all_data = <<>>
    /\ primary_data = Unset
    /\ manual_ran = FALSE
    /\ course_data = Unset
    /\ simplified_data = Unset
    /\ filename = Unset
    /\ max_length = 0
    /\ sanitized = Unset

\* all_data = extract_nextjs_json_data(html_content)
PrimaryPass ==
    /\ pc = "extract"
    /\ all_data' = extract_nextjs_json_data(html_content)
    /\ primary_data' = all_data'
    /\ pc' = "fallback"
    /\ UNCHANGED <<html_content, manual_ran, sanVars, simpVars, dlVars, listVars>>

\* a faulty fallback test that always runs the manual pass
NeedsManualAlways(data) == TRUE

\* if not all_data:
NeedsManual(data) == data = <<>>

\* all_data = extract_with_manual_parsing(html_content)
ManualPass ==
    /\ pc = "fallback"
    /\ NeedsManual(all_data)
    /\ all_data' = extract_with_manual_parsing(html_content)
    /\ manual_ran' = TRUE
    /\ pc' = "select"
    /\ UNCHANGED <<html_content, primary_data, sanVars, simpVars, dlVars, listVars>>

\* the selection loop and the script's `if course_data:`
SelectRecord ==
    /\ \/ pc = "fallback" /\ ~NeedsManual(all_data)
       \/ pc = "select"
    /\ course_data' = SelectLoop(all_data, 1)
    /\ pc' = IF Truthy(course_data') THEN "simplify" ELSE "not_found"
    /\ UNCHANGED <<extVars, sanVars, simplified_data, dlVars, listVars>>

ExtNext == PrimaryPass \/ ManualPass \/ SelectRecord \/ SimplifyCall

SpecExtract == ExtInit /\ [][ExtNext]_vars

\* C1: for the fixture page, extraction and simplification end with exactly
\* one module titled "Mod 1" holding exactly one lesson titled "Lesson A" of
\* type 4.
C1_Fixture ==
    (html_content = Fixture /\ pc \in {"not_found", "simplified"}) =>
        /\ pc = "simplified"
        /\ ~simplified_data.raised
        /\ Len(simplified_data.value.modules) = 1
        /\ simplified_data.value.modules[1].title = JStr(<<"Mod 1">>)
        /\ Len(simplified_data.value.modules[1].lessons) = 1
        /\ simplified_data.value.modules[1].lessons[1].title = JStr(<<"Lesson A">>)
        /\ simplified_data.value.modules[1].lessons[1].type = JNum(4)

C1_Witness ==
    /\ html_content = Fixture
    /\ pc = "simplified"
    /\ Len(all_data) = 1
    /\ simplified_data.value.title = JStr(<<"Course X">>)

\* C2: the selection returns the lowest-index candidate that is a mapping
\* and either (a) has the keys slug and content, or (b) has content.content
\* whose value has the key slug or the key title; it returns None exactly
\* when no candidate qualifies.
C2_Has(x, name) == x.k = "dict" /\ \E p \in 1..Len(x.v) : x.v[p][1] = <<name>>
C2_At(x, name) == (x.v[CHOOSE p \in 1..Len(x.v) : x.v[p][1] = <<name>>])[2]

C2_Qualifies(x) ==
    \/ C2_Has(x, "slug") /\ C2_Has(x, "content")
    \/ /\ C2_Has(x, "content")
       /\ C2_Has(C2_At(x, "content"), "content")
       /\ \/ C2_Has(C2_At(C2_At(x, "content"), "content"), "slug")
          \/ C2_Has(C2_At(C2_At(x, "content"), "content"), "title")

\* the first qualifying candidate of a list, None (JNull) when there is none
C2_FirstOf(candidates) ==
    IF \E i \in 1..Len(candidates) : C2_Qualifies(candidates[i])
    THEN candidates[CHOOSE i \in 1..Len(candidates) :
                        /\ C2_Qualifies(candidates[i])
                        /\ \A j \in 1..(i - 1) : ~C2_Qualifies(candidates[j])]
    ELSE JNull

C2_FirstMatchWins ==
    pc \in {"simplify", "not_found", "simplified"} =>
        /\ course_data = C2_FirstOf(all_data)
        /\ (pc = "not_found") = (\A i \in 1..Len(all_data) : ~C2_Qualifies(all_data[i]))

\* two different qualifying candidates: the earlier one is returned
C2_Witness ==
    /\ pc = "simplify"
    /\ \E i, j \in 1..Len(all_data) :
           /\ i < j
           /\ C2_Qualifies(all_data[i])
           /\ C2_Qualifies(all_data[j])
           /\ all_data[i] # all_data[j]
           /\ course_data = all_data[i]

\* C3: the manual pass runs if and only if the primary pass returned no
\* candidate; then a qualifying record it finds is the result; when the
\* primary pass returned a candidate the manual pass never runs and the
\* selection scans the primary candidates only.
C3_FallbackOnly ==
    /\ pc \in {"extract", "fallback"} => ~manual_ran
    /\ pc \in {"select", "simplify", "not_found", "simplified"} =>
           (manual_ran <=> primary_data = <<>>)
    /\ pc \in {"simplify", "not_found", "simplified"} =>
           /\ primary_data # <<>> =>
                  (all_data = primary_data /\ course_data = C2_FirstOf(primary_data))
           /\ primary_data = <<>> => course_data = C2_FirstOf(all_data)

\* the primary pass found nothing and the record the manual pass found is
\* the result
C3_Witness ==
    /\ pc = "simplify"
    /\ primary_data = <<>>
    /\ manual_ran
    /\ all_data # <<>>
    /\ course_data = all_data[1]

\* C4: the candidates of the primary pass, in (framing, match, strategy)
\* order.  C4_Candidates(keep) concatenates what every (framing, match,
\* strategy) triple whose result satisfies keep contributes: the elements of
\* a list, any other value itself.
C4_Contribution(r) == IF r.k = "list" THEN r.v ELSE <<r>>

C4_Decoded(r) == r # JNull
C4_IsTruthy(r) ==
    \/ r.k = "bool" /\ r.v = <<TRUE>>
    \/ r.k = "num" /\ r.v # <<0>>
    \/ r.k \in {"str", "list", "dict"} /\ Len(r.v) > 0

C4_Candidates(html, Keep(_)) ==
    Concat([k \in 1..3 |->
        Concat([m \in 1..Len(FindAll(k, html, 1)) |->
            Concat([n \in 1..3 |->
                LET r == Approach(n, FindAll(k, html, 1)[m])
                IN IF Keep(r) THEN C4_Contribution(r) ELSE <<>>])])])

\* C4 as stated: the result of every pair that decoded successfully is in
\* the list.
C4_EveryDecoded ==
    pc = "fallback" => primary_data = C4_Candidates(html_content, C4_Decoded)

\* C4 as amended: every strategy is tried on every match of every framing,
\* nothing propagates, and the list is the concatenation, in (framing,
\* match, strategy) order, of the results that are truthy (a decoded 0, "",
\* false, null, {} or [] is dropped), a list result giving its elements.
C4_EveryTruthy ==
    pc = "fallback" => primary_data = C4_Candidates(html_content, C4_IsTruthy)

\* push([0]) decodes to 0, which is dropped; the next call decodes under all
\* three framings, after the strategies that fail on it
C4_Witness ==
    /\ pc = "fallback"
    /\ html_content = Call(<<"0">>) \o BCall(JNum(5), <<"]">>)
    /\ primary_data = <<JNum(5), JNum(5), JNum(5)>>

\* C6: once a record is found, simplify_course_data returns a
\* SimplifiedCourse and raises nothing.
C6_NeverFails ==
    pc = "simplified" =>
        /\ ~simplified_data.raised
        /\ DOMAIN simplified_data.value = {"title", "slug", "modules"}

\* C5 as stated: for {} and for every record without the path
\* content.content, the simplifier returns {title: "Unknown", slug:
\* "Unknown", modules: []} and does not fail.
C5_PathAbsent(cd) ==
    \/ ~HasKey(cd, <<"content">>)
    \/ ~(Lookup(cd, <<"content">>).k = "dict"
         /\ HasKey(Lookup(cd, <<"content">>), <<"content">>))

C5_UnknownDefaults ==
    (pc = "simplified" /\ C5_PathAbsent(course_data)) =>
        simplified_data =
            [raised |-> FALSE, exc |-> "",
             value |-> [title |-> JStr(<<"Unknown">>), slug |-> JStr(<<"Unknown">>),
                        modules |-> <<>>]]

\* C5 as amended: for {} and for every record that has no content key, or
\* whose content value is a mapping, a sequence or a string that does not
\* contain "content", the simplifier returns {title: "", slug: "",
\* modules: []} and does not fail; when the content value is null, a
\* boolean or a number it raises TypeError.
C5_NoContentIn(x) ==
    \/ x.k = "dict" /\ \A i \in 1..Len(x.v) : x.v[i][1] # <<"content">>
    \/ x.k = "list" /\ \A i \in 1..Len(x.v) : x.v[i] # JStr(<<"content">>)
    \/ x.k = "str" /\ \A i \in 1..Len(x.v) : x.v[i] # "content"

C5_EmptyDefaults ==
    pc = "simplified" =>
        /\ (~HasKey(course_data, <<"content">>)
            \/ C5_NoContentIn(Lookup(course_data, <<"content">>)))
           => simplified_data =
                  [raised |-> FALSE, exc |-> "",
                   value |-> [title |-> JStr(<<>>), slug |-> JStr(<<>>),
                              modules |-> <<>>]]
        /\ (HasKey(course_data, <<"content">>)
            /\ Lookup(course_data, <<"content">>).k \in {"null", "bool", "num"})
           => (simplified_data.raised /\ simplified_data.exc = "TypeError")

C5_Witness ==
    /\ pc = "simplified"
    /\ course_data = JDict(<<>>)
    /\ ~simplified_data.raised
    /\ simplified_data.value.modules = <<>>

\* C7: the modules list is the in-order subsequence of the top-level
\* structure entries tagged MODULE that carry data, each module's lessons the
\* in-order subsequence of its own structure entries tagged LESSON that carry
\* data; entries with another tag, entries without data and LESSON entries
\* outside a MODULE add nothing and raise nothing.
C7_Kept(entries, tag) ==
    SelectSeq([i \in 1..Len(entries) |-> i],
              LAMBDA i : /\ \E p \in 1..Len(entries[i].v) :
                               entries[i].v[p] = << <<"type">>, JStr(<<tag>>) >>
                         /\ \E p \in 1..Len(entries[i].v) :
                               entries[i].v[p][1] = <<"data">>)

C7_Data(entry) == Lookup(entry, <<"data">>)

C7_Field(d, name, default) ==
    IF \E p \in 1..Len(d.v) : d.v[p][1] = <<name>>
    THEN (d.v[CHOOSE p \in 1..Len(d.v) : d.v[p][1] = <<name>>])[2]
    ELSE default

\* the record is {"content": {"content": {..., "structure": [entries]}}}, its
\* entries mappings, the data of its kept entries mappings, a module's
\* structure (when there) a list of such entries
C7_EntriesOk(x, tag) ==
    /\ x.k = "list"
    /\ \A i \in 1..Len(x.v) : x.v[i].k = "dict"
    /\ \A j \in 1..Len(C7_Kept(x.v, tag)) :
           C7_Data(x.v[C7_Kept(x.v, tag)[j]]).k = "dict"

C7_Shape(cd) ==
    /\ HasKey(cd, <<"content">>)
    /\ Lookup(cd, <<"content">>).k = "dict"
    /\ HasKey(Lookup(cd, <<"content">>), <<"content">>)
    /\ Lookup(Lookup(cd, <<"content">>), <<"content">>).k = "dict"
    /\ HasKey(Lookup(Lookup(cd, <<"content">>), <<"content">>), <<"structure">>)
    /\ LET st == Lookup(Lookup(Lookup(cd, <<"content">>), <<"content">>), <<"structure">>)
       IN /\ C7_EntriesOk(st, "MODULE")
          /\ \A j \in 1..Len(C7_Kept(st.v, "MODULE")) :
                 LET d == C7_Data(st.v[C7_Kept(st.v, "MODULE")[j]])
                 IN HasKey(d, <<"structure">>)
                        => C7_EntriesOk(Lookup(d, <<"structure">>), "LESSON")

C7_LessonsMatch(lessons, d) ==
    LET ls == IF HasKey(d, <<"structure">>) THEN Lookup(d, <<"structure">>).v ELSE <<>>
        kept == C7_Kept(ls, "LESSON")
    IN /\ Len(lessons) = Len(kept)
       /\ \A n \in 1..Len(kept) :
              LET ld == C7_Data(ls[kept[n]])
              IN lessons[n] =
                     [id |-> C7_Field(ld, "id", JNull),
                      uuid |-> C7_Field(ld, "uuid", JNull),
                      title |-> C7_Field(ld, "title", JStr(<<>>)),
                      type |-> C7_Field(ld, "type", JNull),
                      status |-> C7_Field(ld, "status", JStr(<<"ACTIVE">>))]

C7_FilterAndOrder ==
    (pc = "simplified" /\ C7_Shape(course_data)) =>
        /\ ~simplified_data.raised
        /\ LET st == Lookup(Lookup(Lookup(course_data, <<"content">>),
                                   <<"content">>), <<"structure">>).v
               kept == C7_Kept(st, "MODULE")
               modules == simplified_data.value.modules
           IN /\ Len(modules) = Len(kept)
              /\ \A j \in 1..Len(kept) :
                     LET d == C7_Data(st[kept[j]])
                     IN /\ modules[j].id = C7_Field(d, "id", JNull)
                        /\ modules[j].uuid = C7_Field(d, "uuid", JNull)
                        /\ modules[j].title = C7_Field(d, "title", JStr(<<>>))
                        /\ C7_LessonsMatch(modules[j].lessons, d)

\* a LESSON outside any module, then a module holding an UNKNOWN entry and a
\* LESSON: one module with one lesson comes out
C7_Witness ==
    /\ pc = "simplified"
    /\ course_data =
           Wrapped(CourseContent(JList(
               << Entry("LESSON", LessonDataA),
                  Entry("MODULE", ModuleData(JList(
                      << Entry("UNKNOWN", LessonDataA),
                         Entry("LESSON", LessonDataB) >>))) >>)))
    /\ ~simplified_data.raised
    /\ Len(simplified_data.value.modules) = 1
    /\ Len(simplified_data.value.modules[1].lessons) = 1
    /\ simplified_data.value.modules[1].lessons[1].title = JStr(<<"Lesson B">>)

(***************************************************************************)
(* The download loop: for every module and lesson of simplified_data, the  *)
(* watch metadata, the video, the description and the attachments.  The    *)
(* server, the video downloader and the network are the environment: each  *)
(* call's outcome is chosen freely among the outcomes the call can have.   *)
(***************************************************************************)
MaxModules == 2
MaxModuleLessons == 2
MaxComplementaries == 1

\* the lesson types the loop supports: lesson_type not in [4, 7]
SupportedTypes == {JNum(4), JNum(7)}

\* the types of the lessons walked: the supported ones, 9 (hyperlink), and
\* None for a lesson without a type
LessonTypes == SupportedTypes \cup {JNum(9), JNull}

DlLesson(type) ==
    [id |-> JNum(10), uuid |-> W("u10"), title |-> W("Lesson A"),
     type |-> type, status |-> W("ACTIVE")]

DlModule(types) ==
    [id |-> JNum(1), uuid |-> W("u1"), title |-> W("Mod 1"),
     lessons |-> [i \in 1..Len(types) |-> DlLesson(types[i])]]

\* the simplified courses walked: up to MaxModules modules, each holding the
\* same lessons
Courses ==
    { Return([title |-> W("Course X"), slug |-> W("x"),
              modules |-> [i \in 1..n |-> DlModule(types)]]) :
        n \in 0..MaxModules, types \in SeqsUpTo(LessonTypes, MaxModuleLessons) }

\* a watch-metadata body: whether videoId and description are there, and for
\* each of the complementaries whether its file.url is
WatchBodies ==
    [videoId : BOOLEAN, description : BOOLEAN,
     complementaries : SeqsUpTo(BOOLEAN, MaxComplementaries)]

\* what a GET can do: answer 200, answer another status, or raise
GetOutcomes == {"200", "status", "raise"}

modules == simplified_data.value.modules
lessons == modules[module_index].lessons
lesson == lessons[lesson_index]

DlInit ==
    /\ pc = "module"
    /\ simplified_data \in Courses
    /\ DlIdle
    /\ ListIdle
    /\ course_data = Unset
    /\ filename = Unset
    /\ max_length = 0
    /\ sanitized = Unset
    /\ html_content = Unset
    /\ all_data = Unset
    /\ primary_data = Unset
    /\ manual_ran = FALSE

DlFrame == UNCHANGED <<sanVars, extVars, simpVars, listVars>>

\* for module_index, module in enumerate(simplified_data['modules'], start=1):
\* the next module's directory is made, or the loop (and the run) is over
NextModule ==
    /\ pc = "module"
    /\ IF module_index < Len(modules)
       THEN /\ module_index' = module_index + 1
            /\ lesson_index' = 0
            /\ pc' = "lesson"
       ELSE /\ pc' = "done"
            /\ UNCHANGED <<module_index, lesson_index>>
    /\ UNCHANGED <<lesson_json, complementary_index, processed, effects, diag>>
    /\ DlFrame

\* the lesson loop has walked every lesson of the module
EndOfModule ==
    /\ pc = "lesson"
    /\ lesson_index >= Len(lessons)
    /\ pc' = "module"
    /\ UNCHANGED dlVars
    /\ DlFrame

\* a faulty type test that lets every lesson through
UnsupportedNever(type) == FALSE

\* lesson_type not in [4, 7]
Unsupported(type) == type \notin SupportedTypes

\* the next lesson is of an unsupported type: a diagnostic, then continue
SkipLesson ==
    /\ pc = "lesson"
    /\ lesson_index < Len(lessons)
    /\ Unsupported(lessons[lesson_index + 1].type)
    /\ lesson_index' = lesson_index + 1
    /\ processed' = Append(processed, <<module_index, lesson_index + 1>>)
    /\ effects' = {}
    /\ diag' = "unsupported"
    /\ pc' = "lesson"
    /\ UNCHANGED <<module_index, lesson_json, complementary_index>>
    /\ DlFrame

\* the next lesson is of a supported type: its directory is made
StartLesson ==
    /\ pc = "lesson"
    /\ lesson_index < Len(lessons)
    /\ ~Unsupported(lessons[lesson_index + 1].type)
    /\ lesson_index' = lesson_index + 1
    /\ processed' = Append(processed, <<module_index, lesson_index + 1>>)
    /\ effects' = {"lesson_dir"}
    /\ diag' = "Baixando aula"
    /\ pc' = "watch"
    /\ UNCHANGED <<module_index, lesson_json, complementary_index>>
    /\ DlFrame

\* lesson_data = session.get(edu_watch_f_url...); lesson_data.status_code;
\* lesson_data.json().  Nothing around the two calls catches an exception:
\* when the GET raises, or the body is not JSON, the script ends.
WatchMetadata ==
    /\ pc = "watch"
    /\ effects' = effects \cup {"watch"}
    /\ \E outcome \in GetOutcomes :
           \/ /\ outcome = "raise"
              /\ pc' = "aborted"
              /\ diag' = "ConnectionError"
              /\ UNCHANGED lesson_json
           \/ /\ outcome = "status"
              /\ pc' = "lesson"
              /\ diag' = "Erro ao obter dados da aula"
              /\ UNCHANGED lesson_json
           \/ /\ outcome = "200"
              /\ \E is_json \in BOOLEAN :
                     IF is_json
                     THEN /\ pc' = "video"
                          /\ diag' = ""
                          /\ lesson_json' \in WatchBodies
                     ELSE /\ pc' = "aborted"
                          /\ diag' = "JSONDecodeError"
                          /\ UNCHANGED lesson_json
    /\ UNCHANGED <<module_index, lesson_index, complementary_index, processed>>
    /\ DlFrame

\* what download_video_with_ytdlp returns: None when yt-dlp succeeds, False
\* when it raises an Exception, which the function catches
download_video_with_ytdlp(ytdlp_raises) ==
    IF ytdlp_raises THEN JBool(FALSE) ELSE JNull

\* video_id = lesson_json.get('videoId'); if video_id: download_video_with_ytdlp
VideoStep ==
    /\ pc = "video"
    /\ IF lesson_json.videoId
       THEN /\ effects' = effects \cup {"video"}
            /\ \E ytdlp_raises \in BOOLEAN :
                   diag' = IF download_video_with_ytdlp(ytdlp_raises) = JNull
                           THEN "Tentando baixar"
                           ELSE "Erro ao baixar video"
            /\ pc' = "description"
       ELSE /\ effects' = effects
            /\ pc' = "description"
            /\ diag' = "Nenhum video ID encontrado"
    /\ UNCHANGED <<module_index, lesson_index, lesson_json, complementary_index,
                   processed>>
    /\ DlFrame

\* description_html = lesson_json.get('description', ''): written as text
\* when there is one
DescriptionStep ==
    /\ pc = "description"
    /\ IF lesson_json.description
       THEN effects' = effects \cup {"description"} /\ diag' = "Descricao salva"
       ELSE effects' = effects /\ diag' = "Nenhuma descricao encontrada"
    /\ complementary_index' = 0
    /\ pc' = "complementaries"
    /\ UNCHANGED <<module_index, lesson_index, lesson_json, processed>>
    /\ DlFrame

\* for complementary in lesson_json['complementaries']: the GET of the file
\* is inside try/except Exception
NextComplementary ==
    /\ pc = "complementaries"
    /\ complementary_index < Len(lesson_json.complementaries)
    /\ complementary_index' = complementary_index + 1
    /\ IF lesson_json.complementaries[complementary_index + 1]
       THEN /\ effects' = effects \cup {"attachment"}
            /\ \E outcome \in GetOutcomes :
                   diag' = CASE outcome = "200" -> "Arquivo salvo"
                             [] outcome = "status" -> "Erro ao baixar: status"
                             [] outcome = "raise" -> "Erro ao baixar: excecao"
       ELSE /\ effects' = effects
            /\ diag' = "URL nao encontrada"
    /\ pc' = "complementaries"
    /\ UNCHANGED <<module_index, lesson_index, lesson_json, processed>>
    /\ DlFrame

\* the attachments are walked: on to the next lesson
EndOfLesson ==
    /\ pc = "complementaries"
    /\ complementary_index >= Len(lesson_json.complementaries)
    /\ pc' = "lesson"
    /\ UNCHANGED dlVars
    /\ DlFrame

DlNext ==
    \/ NextModule
    \/ EndOfModule
    \/ SkipLesson
    \/ StartLesson
    \/ WatchMetadata
    \/ VideoStep
    \/ DescriptionStep
    \/ NextComplementary
    \/ EndOfLesson

SpecDownload == DlInit /\ [][DlNext]_vars

\* every <<module, lesson>> pair of the course, in the order of the walk
RECURSIVE C10_Walk(_, _, _)
C10_Walk(ms, m, l) ==
    IF m > Len(ms) THEN <<>>
    ELSE IF l > Len(ms[m].lessons) THEN C10_Walk(ms, m + 1, 1)
    ELSE <<<<m, l>>>> \o C10_Walk(ms, m, l + 1)

\* C10: no failure while one lesson is processed ends the run: when the run
\* is over, every lesson of every module has been walked.
C10_NeverAborts ==
    pc \in {"done", "aborted"} => processed = C10_Walk(modules, 1, 1)

\* C11: a lesson whose type is neither 4 nor 7 (a missing type included) is
\* skipped: no lesson directory, no watch-metadata request, no video
\* download and no attachment download is made for it, nothing is raised,
\* and the loop goes on to the next lesson; whatever is fetched or delegated
\* is for a lesson of type 4 or 7.
C11_IsSupported(type) == type = JNum(4) \/ type = JNum(7)

C11_SkipsUnsupported ==
    (module_index >= 1 /\ lesson_index >= 1) =>
        /\ ~C11_IsSupported(lesson.type) =>
               /\ effects = {}
               /\ diag = "unsupported"
               /\ pc \in {"lesson", "module", "done"}
               /\ processed[Len(processed)] = <<module_index, lesson_index>>
        /\ effects # {} => C11_IsSupported(lesson.type)

\* a lesson without a type was skipped and the lesson after it, of type 7, is
\* being downloaded
C11_Witness ==
    /\ module_index >= 1
    /\ lesson_index = 2
    /\ lessons[1].type = JNull
    /\ lessons[2].type = JNum(7)
    /\ processed = <<<<1, 1>>, <<1, 2>>>>
    /\ {"lesson_dir", "watch", "video"} \subseteq effects

\* C12: whatever the name and max_length, the result of sanitize_filename,
\* compared case-insensitively, is none of the reserved device names CON,
\* PRN, AUX, NUL, COM1-COM9, LPT1-LPT9.
C12_NeverReserved ==
    pc = "sanitized" => Upper(sanitized) \notin reserved_names

(***************************************************************************)
(* The course listing and the course selection.  The server's pages and    *)
(* what the user types are the environment.  A page is the sequence of its *)
(* div.classified cards; a card is the text of its a.font-size-h4 link and *)
(* the link's href (empty when the card has no such link or no href).      *)
(***************************************************************************)
MaxListPages == 2
MaxCards == 2

base_url == <<"http", "://portal">>

CardRelative == [name |-> "Curso A", href |-> <<"/curso-a">>]
CardAbsolute == [name |-> "Curso B", href |-> <<"http", "://cdn/curso-b">>]
CardNoLink == [name |-> "", href |-> <<>>]

Cards == {CardRelative, CardAbsolute, CardNoLink}

\* url.startswith('http')
StartsWithHttp(url) == Len(url) >= 1 /\ url[1] = "http"

\* the entry of a card that has a link: {'name': name, 'url': url}
EntryOf(card) ==
    [name |-> card.name,
     url |-> IF StartsWithHttp(card.href) THEN card.href ELSE base_url \o card.href]

\* for card in soup.select('div.classified'), from card i on
RECURSIVE CardsLoop(_, _, _)
CardsLoop(cards, i, page_courses) ==
    IF i > Len(cards) THEN page_courses
    ELSE IF cards[i].href # <<>>
    THEN CardsLoop(cards, i + 1, Append(page_courses, EntryOf(cards[i])))
    ELSE CardsLoop(cards, i + 1, page_courses)

\* a faulty end test that stops at the first page with fewer than two entries
PageIsShort(page_courses) == Len(page_courses) < 2

\* if not page_courses
PageIsEmpty(page_courses) == page_courses = <<>>

ListInit ==
    /\ pc = "listing"
    /\ page = 1
    /\ courses = <<>>
    /\ requested = <<>>
    /\ served = <<>>
    /\ choice = 0
    /\ selected = Unset
    /\ DlIdle
    /\ filename = Unset
    /\ max_length = 0
    /\ sanitized = Unset
    /\ html_content = Unset
    /\ all_data = Unset
    /\ primary_data = Unset
    /\ manual_ran = FALSE
    /\ course_data = Unset
    /\ simplified_data = Unset

ListFrame == UNCHANGED <<sanVars, extVars, simpVars, dlVars>>

\* one turn of the while True loop: the GET of the page, its cards, the end
\* test, courses.extend and page += 1.  The server sends entries on at most
\* MaxListPages pages.
RequestPage ==
    /\ pc = "listing"
    /\ requested' = Append(requested, page)
    /\ \E cards \in SeqsUpTo(Cards, MaxCards) :
           LET page_courses == CardsLoop(cards, 1, <<>>)
           IN /\ page <= MaxListPages \/ page_courses = <<>>
              /\ served' = Append(served, cards)
              /\ IF PageIsEmpty(page_courses)
                 THEN /\ pc' = "listed"
                      /\ UNCHANGED <<page, courses>>
                 ELSE /\ courses' = courses \o page_courses
                      /\ page' = page + 1
                      /\ pc' = "listing"
    /\ UNCHANGED <<choice, selected>>
    /\ ListFrame

\* the GET of the page raises: nothing catches it, the script ends
RequestPageRaises ==
    /\ pc = "listing"
    /\ requested' = Append(requested, page)
    /\ pc' = "aborted"
    /\ UNCHANGED <<page, courses, served, choice, selected>>
    /\ ListFrame

\* if not courses: ... exit(1)
AfterListing ==
    /\ pc = "listed"
    /\ pc' = IF courses = <<>> THEN "exit" ELSE "choose"
    /\ UNCHANGED listVars
    /\ ListFrame

\* what int(text) does with the text typed: "x" stands for any text that
\* is no number
IsValueError(text) == ~IsNumber(text)

\* one turn of the input loop: int(input(...)) raises ValueError on text that
\* is no number; a number within 1..len(courses) ends the loop
Choose ==
    /\ pc = "choose"
    /\ \E text \in {"x"} \cup {NumberAtoms[n + 1] : n \in 0..(Len(courses) + 1)} :
           IF IsValueError(text)
           THEN UNCHANGED <<pc, choice>>
           ELSE /\ choice' = NumberOf(text)
                /\ pc' = IF 1 <= NumberOf(text) /\ NumberOf(text) <= Len(courses)
                         THEN "fetch" ELSE "choose"
    /\ UNCHANGED <<page, courses, requested, served, selected>>
    /\ ListFrame

\* selected = courses[choice - 1]; course_response = session.get(selected['url'])
FetchCourse ==
    /\ pc = "fetch"
    /\ selected' = courses[choice]
    /\ \E raises \in BOOLEAN : pc' = IF raises THEN "aborted" ELSE "fetched"
    /\ UNCHANGED <<page, courses, requested, served, choice>>
    /\ ListFrame

ListNext ==
    \/ RequestPage
    \/ RequestPageRaises
    \/ AfterListing
    \/ Choose
    \/ FetchCourse

SpecListing == ListInit /\ [][ListNext]_vars

\* C13: the pages requested are 1, 2, 3, ... in increasing order; the loop
\* stops at the first page that yields no course entry, and only there; the
\* course list is then the concatenation, in page order, of the entries of
\* the earlier pages; a course is chosen and its page fetched only after the
\* loop has stopped with a list that is not empty.
C13_Yield(cards) ==
    LET linked == SelectSeq(cards, LAMBDA c : c.href # <<>>)
    IN [i \in 1..Len(linked) |->
           [name |-> linked[i].name,
            url |-> IF linked[i].href[1] = "http" THEN linked[i].href
                    ELSE base_url \o linked[i].href]]

RECURSIVE C13_Collected(_, _)
C13_Collected(pages, n) ==
    IF n = 0 THEN <<>> ELSE C13_Collected(pages, n - 1) \o C13_Yield(pages[n])

C13_Listing ==
    /\ \A i \in 1..Len(requested) : requested[i] = i
    /\ pc = "listing" =>
           /\ Len(served) = Len(requested)
           /\ page = Len(requested) + 1
           /\ \A i \in 1..Len(served) : C13_Yield(served[i]) # <<>>
           /\ courses = C13_Collected(served, Len(served))
    /\ pc \in {"listed", "exit", "choose", "fetch", "fetched"} =>
           /\ Len(served) = Len(requested)
           /\ Len(served) >= 1
           /\ C13_Yield(served[Len(served)]) = <<>>
           /\ \A i \in 1..(Len(served) - 1) : C13_Yield(served[i]) # <<>>
           /\ courses = C13_Collected(served, Len(served) - 1)
    /\ pc \in {"choose", "fetch", "fetched"} => courses # <<>>
    /\ pc = "exit" => courses = <<>>
    /\ pc \notin {"fetched", "aborted"} => selected = Unset
    /\ pc = "fetched" =>
           /\ choice \in 1..Len(courses)
           /\ selected = courses[choice]

\* two pages with entries, then a page of cards without links: the loop has
\* stopped and the second course of the list was chosen and fetched
C13_Witness ==
    /\ pc = "fetched"
    /\ requested = <<1, 2, 3>>
    /\ served[3] = <<CardNoLink>>
    /\ Len(courses) >= 3
    /\ choice = 2
    /\ selected = courses[2]

====
